---- MODULE Spec2Model ----
(***************************************************************************)
(* A model of chrome/content/dns.js: the DNS-over-TCP resolver of the      *)
(* DKIM Verifier add-on.                                                   *)
(*                                                                         *)
(* Strings are sequences of character codes (a byte read from the socket   *)
(* is a code in 0..255).  The wire codec is modelled byte for byte; the    *)
(* resolver is a state machine driven by the transport's events            *)
(* (onDataAvailable, onStopRequest) and by the callers (queryDNS, the      *)
(* preference setters).                                                    *)
(***************************************************************************)
EXTENDS Integers, Sequences, FiniteSets, TLC

----------------------------------------------------------------------------
(* JavaScript values the code computes with *)

\* The number NaN: what charCodeAt gives past the end of a string.
NaN == 0 - 1

Min(a, b) == IF a < b THEN a ELSE b

\* ToInteger of an index or length argument: NaN counts as 0.
ToInteger(x) == IF x = NaN THEN 0 ELSE x

\* a + b on numbers.
Plus(a, b) == IF a = NaN \/ b = NaN THEN NaN ELSE a + b

\* str.charCodeAt(pos)
charCodeAt(str, pos) ==
    LET p == ToInteger(pos)
    IN  IF p >= 0 /\ p < Len(str) THEN str[p + 1] ELSE NaN

\* str.substr(start, length)
substr(str, start, length) ==
    LET s == ToInteger(start)
        l == ToInteger(length)
    IN  IF s >= Len(str) \/ l <= 0 THEN <<>>
        ELSE SubSeq(str, s + 1, Min(s + l, Len(str)))

\* str.substr(start)
substrFrom(str, start) == substr(str, start, Len(str))

\* The decimal digits of a non-negative number, as character codes.
RECURSIVE Digits(_)
Digits(n) == IF n < 10 THEN <<48 + n>> ELSE Digits(n \div 10) \o <<48 + (n % 10)>>

\* number + "": what string concatenation makes of a number ("NaN" for NaN).
NumberToString(n) == IF n = NaN THEN <<78, 97, 78>> ELSE Digits(n)

\* The character codes the code names.
DOT == <<46>>
COLON == <<58>>
SEMICOLON == <<59>>

----------------------------------------------------------------------------
(* Word and octet conversions, dns.js 749-777 *)

DNS_strToWord(str) ==
    LET hi == charCodeAt(str, 0)
        lo == charCodeAt(str, 1)
    IN  Plus(lo, IF hi = NaN THEN 0 ELSE hi * 256)

DNS_strToOctet(str) == charCodeAt(str, 0)

\* String.fromCharCode takes its argument modulo 2^16.
DNS_octetToStr(octet) == <<octet % 65536>>

DNS_wordToStr(word) ==
    DNS_octetToStr((word \div 256) % 256) \o DNS_octetToStr(word % 256)

----------------------------------------------------------------------------
(* Reading a domain name, dns.js 561-590 *)

\* How deep DNS_readDomain may call itself before the engine's stack is
\* exhausted ("too much recursion"), which ends the handler with an exception.
MaxRecursion == 4

\* ctx.idx++ and ctx.idx += l keep NaN.
RECURSIVE DNS_readDomainLoop(_, _, _, _, _)
DNS_readDomainLoop(str, idx, domainname, ctr, depth) ==
    IF ctr <= 0
    THEN [domainname |-> domainname, idx |-> idx, thrown |-> FALSE]
    ELSE
      LET l == charCodeAt(str, idx)
          idx1 == Plus(idx, 1)
      IN  IF l = 0
          THEN [domainname |-> domainname, idx |-> idx1, thrown |-> FALSE]
          ELSE
            LET dn == IF domainname # <<>> THEN domainname \o DOT ELSE domainname
            IN  IF l # NaN /\ (l \div 64) = 3
                THEN \* a pointer: read at the offset with a context of its own
                  LET ptr == Plus((l % 64) * 256, charCodeAt(str, idx1))
                      idx2 == Plus(idx1, 1)
                  IN  IF depth >= MaxRecursion
                      THEN [domainname |-> dn, idx |-> idx2, thrown |-> TRUE]
                      ELSE
                        LET sub == DNS_readDomainLoop(str, ptr, <<>>, 20, depth + 1)
                        IN  [domainname |-> dn \o sub.domainname,
                             idx |-> idx2, thrown |-> sub.thrown]
                ELSE DNS_readDomainLoop(str, Plus(idx1, l),
                                        dn \o substr(str, idx1, l), ctr - 1, depth)

DNS_readDomain(str, idx) == DNS_readDomainLoop(str, idx, <<>>, 20, 0)

\* How many labels and pointers the loop of 566-588 takes up in reading the
\* name at idx, the calls of line 581 included (ctr iterations are left in
\* the running call).
RECURSIVE DNS_readDomainSteps(_, _, _, _)
DNS_readDomainSteps(str, idx, ctr, depth) ==
    IF ctr <= 0 \/ charCodeAt(str, idx) = 0 THEN 0
    ELSE IF charCodeAt(str, idx) # NaN /\ (charCodeAt(str, idx) \div 64) = 3
    THEN 1 + (IF depth >= MaxRecursion THEN 0
              ELSE DNS_readDomainSteps(
                       str,
                       Plus((charCodeAt(str, idx) % 64) * 256,
                            charCodeAt(str, Plus(idx, 1))),
                       20, depth + 1))
    ELSE 1 + DNS_readDomainSteps(str, Plus(Plus(idx, 1), charCodeAt(str, idx)),
                                 ctr - 1, depth)

----------------------------------------------------------------------------
(* Reading a resource record, dns.js 592-643 *)

\* rec.rddata: a string for TXT, A, NS, PTR and CNAME, an object
\* {preference, host} for MX (no address property is ever set on it, so
\* reading it gives undefined), and undefined for an unrecognized record.
StringData(s) ==
    [kind |-> "string", str |-> s, preference |-> 0, host |-> <<>>,
     address |-> "undefined"]

MXData(p, h) ==
    [kind |-> "object", str |-> <<>>, preference |-> p, host |-> h,
     address |-> "undefined"]

UndefinedData ==
    [kind |-> "undefined", str |-> <<>>, preference |-> 0, host |-> <<>>,
     address |-> "undefined"]

\* The type codes DNS_readRec recognizes (and queryDNSRecursive sends).
TYPE_A == 1
TYPE_NS == 2
TYPE_CNAME == 5
TYPE_PTR == 12
TYPE_MX == 15
TYPE_TXT == 16

\* DNS_readTxt without the counter of lines 611-612: while (rec.rdlen > 0).
RECURSIVE DNS_readTxt_uncounted(_, _, _, _, _)
DNS_readTxt_uncounted(str, idx, rdlen, ctr, rddata) ==
    IF ~(rdlen # NaN /\ rdlen > 0) THEN rddata
    ELSE
      LET txtlen == DNS_strToOctet(substr(str, idx, 1))
          idx1 == Plus(idx, 1)
          left == IF txtlen = NaN THEN NaN ELSE rdlen - 1 - txtlen
      IN  DNS_readTxt_uncounted(str, Plus(idx1, txtlen), left, ctr,
                                rddata \o substr(str, idx1, txtlen))

\* while (rec.rdlen > 0 && ctr-- > 0) { ... }: the text fragments of a TXT.
RECURSIVE DNS_readTxt(_, _, _, _, _)
DNS_readTxt(str, idx, rdlen, ctr, rddata) ==
    IF ~(rdlen # NaN /\ rdlen > 0 /\ ctr > 0) THEN rddata
    ELSE
      LET txtlen == DNS_strToOctet(substr(str, idx, 1))
          idx1 == Plus(idx, 1)
          left == IF txtlen = NaN THEN NaN ELSE rdlen - 1 - txtlen
      IN  DNS_readTxt(str, Plus(idx1, txtlen), left, ctr - 1,
                      rddata \o substr(str, idx1, txtlen))

\* The dotted quad of an A record.
DNS_dottedQuad(rddata) ==
    NumberToString(charCodeAt(rddata, 0)) \o DOT \o
    NumberToString(charCodeAt(rddata, 1)) \o DOT \o
    NumberToString(charCodeAt(rddata, 2)) \o DOT \o
    NumberToString(charCodeAt(rddata, 3))

\* rec.type is kept as the number read; the code's tags "TXT", "A", ... stand
\* for the codes 16, 1, ... they replace.
DNS_recognized(type) ==
    type \in {TYPE_TXT, TYPE_A, TYPE_MX, TYPE_NS, TYPE_PTR, TYPE_CNAME}

\* Lines 608-638: the rddata of a record of the type, whose RDATA starts at idx;
\* thrown when reading a name in it exhausts the stack.
DNS_nameData(name) == [rddata |-> StringData(name.domainname), thrown |-> name.thrown]

DNS_mxData(preference, host) ==
    [rddata |-> MXData(preference, host.domainname), thrown |-> host.thrown]

DNS_rddata(str, type, rdlen, idx) ==
    CASE type = TYPE_TXT ->
            [rddata |-> StringData(DNS_readTxt(str, idx, rdlen, 10, <<>>)),
             thrown |-> FALSE]
      [] type = TYPE_A ->
            [rddata |-> StringData(DNS_dottedQuad(substr(str, idx, rdlen))),
             thrown |-> FALSE]
      [] type = TYPE_MX ->
            DNS_mxData(DNS_strToWord(substr(str, idx, 2)),
                       DNS_readDomain(str, Plus(idx, 2)))
      [] type = TYPE_NS -> DNS_nameData(DNS_readDomain(str, idx))
      [] type = TYPE_PTR -> DNS_nameData(DNS_readDomain(str, idx))
      [] type = TYPE_CNAME -> [rddata |-> StringData(<<>>), thrown |-> FALSE]
      [] OTHER -> [rddata |-> UndefinedData, thrown |-> FALSE]

\* Lines 595-606 and 640-642: the record, and the cursor after it.
DNS_makeRec(d, type, cls, ttl, ctxnextidx, data) ==
    [rec |-> [dom |-> d.domainname, type |-> type, cls |-> cls, ttl |-> ttl,
              recognized |-> DNS_recognized(type), rddata |-> data.rddata],
     idx |-> ctxnextidx,
     thrown |-> d.thrown \/ data.thrown]

\* The fields after the owner name d: type, class, the first half of the TTL
\* (the cursor moves 4 bytes) and RDLENGTH, then the RDATA.
DNS_readRecFields(str, d, type, cls, ttl, rdlen, idx) ==
    DNS_makeRec(d, type, cls, ttl, Plus(idx, rdlen), DNS_rddata(str, type, rdlen, idx))

DNS_readRecAfter(str, d) ==
    DNS_readRecFields(str, d,
        DNS_strToWord(substr(str, d.idx, 2)),
        DNS_strToWord(substr(str, Plus(d.idx, 2), 2)),
        DNS_strToWord(substr(str, Plus(d.idx, 4), 2)),
        DNS_strToWord(substr(str, Plus(d.idx, 8), 2)),
        Plus(d.idx, 10))

DNS_readRec(str, idx) == DNS_readRecAfter(str, DNS_readDomain(str, idx))

----------------------------------------------------------------------------
(* Parsing a response and deciding what to do with it, dns.js 645-747 *)

\* n records read one after the other from idx on; a count of NaN reads none.
RECURSIVE DNS_readRecs(_, _, _)
DNS_consRecs(r, rest) ==
    [recs |-> <<r.rec>> \o rest.recs, idx |-> rest.idx, thrown |-> rest.thrown]

DNS_readRecsFrom(str, r, n) ==
    IF r.thrown
    THEN [recs |-> <<r.rec>>, idx |-> r.idx, thrown |-> TRUE]
    ELSE DNS_consRecs(r, DNS_readRecs(str, r.idx, n - 1))

DNS_readRecs(str, idx, n) ==
    IF n = NaN \/ n <= 0
    THEN [recs |-> <<>>, idx |-> idx, thrown |-> FALSE]
    ELSE DNS_readRecsFrom(str, DNS_readRec(str, idx), n)

\* The rddata of the answers that are not CNAMEs, in order (684-697).
RECURSIVE DNS_results(_)
DNS_results(recs) ==
    IF recs = <<>> THEN <<>>
    ELSE (IF Head(recs).type # TYPE_CNAME THEN <<Head(recs).rddata>> ELSE <<>>)
         \o DNS_results(Tail(recs))

\* The first NS authority whose rddata is not the server just asked (735-741);
\* 0 when there is none.
DNS_firstAuthority(authorities, server) ==
    LET S == {i \in 1..Len(authorities) :
                /\ authorities[i].type = TYPE_NS
                /\ authorities[i].rddata.str # server}
    IN  IF S = {} THEN 0 ELSE CHOOSE i \in S : \A j \in S : i <= j

\* Lines 714-723: an additional A record whose owner is the host of a result
\* makes the code read results[j].address.length; address is undefined
\* (never null), so that read throws a TypeError.
DNS_glueThrows(results, additionals) ==
    \E i \in 1..Len(additionals) : \E j \in 1..Len(results) :
        /\ additionals[i].type = TYPE_A
        /\ results[j].kind = "object"
        /\ results[j].host # <<>>
        /\ results[j].host = additionals[i].dom

\* What DNS_getRDData(str, server, ...) does: it throws, or calls the callback
\* with the results, or calls queryDNSRecursive for an authority, or calls the
\* callback with null.
Thrown(why) == [kind |-> "throw", why |-> why, results |-> <<>>, server |-> <<>>]

Answer(results) ==
    [kind |-> "answer", why |-> "", results |-> results, server |-> <<>>]

Recurse(server) ==
    [kind |-> "recurse", why |-> "", results |-> <<>>, server |-> server]

NoAnswer == [kind |-> "noanswer", why |-> "", results |-> <<>>, server |-> <<>>]

\* Lines 726-746, with the authority to recurse on (0 for none) found.
DNS_decide(results, authorities, ns) ==
    IF Len(results) > 0 THEN Answer(results)
    ELSE IF ns # 0 THEN Recurse(authorities[ns].rddata.str)
    ELSE NoAnswer

\* Lines 699-746, after the answers an, the authorities au and the additional
\* records ad were read.
DNS_afterRecords(server, results, an, au, ad) ==
    IF \E i \in 1..(Len(an.recs) - (IF an.thrown THEN 1 ELSE 0)) :
            ~an.recs[i].recognized
    THEN Thrown("Record type is not one that this library can understand.")
    ELSE IF an.thrown \/ au.thrown \/ ad.thrown THEN Thrown("too much recursion")
    ELSE IF DNS_glueThrows(results, ad.recs) THEN Thrown("TypeError")
    ELSE DNS_decide(results, au.recs, DNS_firstAuthority(au.recs, server))

DNS_afterAuthorities(str, server, adcount, an, au) ==
    DNS_afterRecords(server, DNS_results(an.recs), an, au,
                     DNS_readRecs(str, au.idx, adcount))

DNS_afterAnswers(str, server, aucount, adcount, an) ==
    DNS_afterAuthorities(str, server, adcount, an, DNS_readRecs(str, an.idx, aucount))

\* Lines 676-680: the one question is a name, a type and a class.
DNS_afterQuestion(str, server, ancount, aucount, adcount, q) ==
    IF q.thrown THEN Thrown("too much recursion")
    ELSE DNS_afterAnswers(str, server, aucount, adcount,
                          DNS_readRecs(str, Plus(q.idx, 4), ancount))

\* Lines 663-674.
DNS_checkCounts(str, server, qcount, ancount, aucount, adcount) ==
    IF qcount # 1 THEN Thrown("Invalid response: Question section")
    ELSE IF ancount > 128 THEN Thrown("Invalid response: Answer section")
    ELSE IF aucount > 128 THEN Thrown("Invalid response: Authority section")
    ELSE IF adcount > 128 THEN Thrown("Invalid response: Additional section")
    ELSE DNS_afterQuestion(str, server, ancount, aucount, adcount,
                           DNS_readDomain(str, 12))

DNS_getRDData(str, server) ==
    DNS_checkCounts(str, server,
        DNS_strToWord(substr(str, 4, 2)),
        DNS_strToWord(substr(str, 6, 2)),
        DNS_strToWord(substr(str, 8, 2)),
        DNS_strToWord(substr(str, 10, 2)))

----------------------------------------------------------------------------
(* What the servers send: the byte streams the transport may deliver *)

W(n) == <<(n \div 256) % 256, n % 256>>

\* One label "h", the name every question below asks about.
QNAME == <<1, 104, 0>>

\* A compression pointer to offset 12, the question's name.
PTR12 == <<192, 12>>

Question(type) == QNAME \o W(type) \o W(1)

RR(name, type, rdata) ==
    name \o W(type) \o W(1) \o <<0, 0, 0, 60>> \o W(Len(rdata)) \o rdata

Message(qd, an, ns, ar, body) ==
    <<48, 48, 129, 128>> \o W(qd) \o W(an) \o W(ns) \o W(ar) \o body

Frame(msg) == W(Len(msg)) \o msg

\* The server names of the model: "a" and "b".
SERVER_A == <<97>>
SERVER_B == <<98>>

NameOf(server) == <<Len(server)>> \o server \o <<0>>

\* An answer of type A, 1.2.3.4.
RespA ==
    Frame(Message(1, 1, 0, 0, Question(TYPE_A) \o RR(PTR12, TYPE_A, <<1, 2, 3, 4>>)))

\* Two answers to a question of type A: the A record 1.2.3.4 and a TXT "hi".
RespAandTXT ==
    Frame(Message(1, 2, 0, 0,
        Question(TYPE_A) \o RR(PTR12, TYPE_A, <<1, 2, 3, 4>>)
                         \o RR(PTR12, TYPE_TXT, <<1, 104, 1, 105>>)))

\* An answer of type TXT, "hi", in two fragments.
RespTXT ==
    Frame(Message(1, 1, 0, 0,
        Question(TYPE_TXT) \o RR(PTR12, TYPE_TXT, <<1, 104, 1, 105>>)))

\* Only a CNAME in the answer section, and no authority.
RespCNAME ==
    Frame(Message(1, 1, 0, 0,
        Question(TYPE_A) \o RR(PTR12, TYPE_CNAME, NameOf(SERVER_A))))

\* No answer and no authority.
RespEmpty == Frame(Message(1, 0, 0, 0, Question(TYPE_A)))

\* No answer, and an NS authority naming the server.
RespRefer(server) ==
    Frame(Message(1, 0, 1, 0,
        Question(TYPE_A) \o RR(PTR12, TYPE_NS, NameOf(server))))

\* Header violations: no question, and 129 answers.
RespNoQuestion == Frame(Message(0, 0, 0, 0, <<>>))
RespManyAnswers == Frame(Message(1, 129, 0, 0, Question(TYPE_A)))

\* An answer of a type the library does not know (AAAA, 28).
RespUnknown ==
    Frame(Message(1, 1, 0, 0,
        Question(TYPE_A) \o RR(PTR12, 28, <<0, 0, 0, 0>>)))

----------------------------------------------------------------------------
(* The state *)

VARIABLES
    objs,                         \* the nameserver entries ever made: {server, alive}
    PREF_DNS_ROOT_NAME_SERVERS,   \* arrays of entries (indices into objs)
    OS_DNS_ROOT_NAME_SERVERS,
    DNS_ROOT_NAME_SERVERS,
    getNameserversFromOS,         \* the preference (null at load counts as false)
    lookups,                      \* one record per queryDNS call
    conns,                        \* one record per DNS_readAllFromSocket call
    ncalls                        \* how many calls the callers have made

vars == <<objs, PREF_DNS_ROOT_NAME_SERVERS, OS_DNS_ROOT_NAME_SERVERS,
          DNS_ROOT_NAME_SERVERS, getNameserversFromOS, lookups, conns, ncalls>>

\* The part of the state a lookup's handlers read and write.
World == [objs |-> objs, lookups |-> lookups, conns |-> conns]

----------------------------------------------------------------------------
(* The nameserver preferences, dns.js 102-197 *)

WhiteSpace == {9, 10, 11, 12, 13, 32, 160}

\* str.split(sep) for a one-character separator: "" splits into [""].
RECURSIVE split(_, _)
split(str, sep) ==
    LET S == {i \in 1..Len(str) : <<str[i]>> = sep}
    IN  IF S = {} THEN <<str>>
        ELSE LET i == CHOOSE k \in S : \A j \in S : k <= j
             IN  <<SubSeq(str, 1, i - 1)>> \o split(SubSeq(str, i + 1, Len(str)), sep)

\* str.trim()
RECURSIVE trim(_)
trim(str) ==
    IF str = <<>> THEN str
    ELSE IF str[1] \in WhiteSpace THEN trim(Tail(str))
    ELSE IF str[Len(str)] \in WhiteSpace THEN trim(SubSeq(str, 1, Len(str) - 1))
    ELSE str

\* The servers dnsChangeNameserver pushes: the trimmed, non-empty elements.
RECURSIVE PrefServers(_)
PrefServers(elements) ==
    IF elements = <<>> THEN <<>>
    ELSE (IF trim(Head(elements)) # <<>> THEN <<trim(Head(elements))>> ELSE <<>>)
         \o PrefServers(Tail(elements))

\* New entries {server, alive : true} for the names, after the n there are.
NewEntries(names) == [i \in 1..Len(names) |-> [server |-> names[i], alive |-> TRUE]]
NewIds(n, names) == [i \in 1..Len(names) |-> n + i]

\* The key "__proto__".  seen (line 192) is a plain object: seen["__proto__"]
\* is the inherited accessor, whose setter drops a value that is neither an
\* object nor null, so seen["__proto__"] = 1 stores nothing and
\* seen["__proto__"] === 1 stays false.
PROTO == <<95, 95, 112, 114, 111, 116, 111, 95, 95>>

\* arrayUniqBy(ary, function(e) {return e.server;}) on an array of entries;
\* seen holds the keys k with seen[k] === 1.
RECURSIVE arrayUniqBySeen(_, _, _)
arrayUniqBySeen(O, ary, seen) ==
    IF ary = <<>> THEN <<>>
    ELSE LET k == O[Head(ary)].server
         IN  IF k \in seen THEN arrayUniqBySeen(O, Tail(ary), seen)
             ELSE <<Head(ary)>>
                  \o arrayUniqBySeen(O, Tail(ary),
                                     IF k = PROTO THEN seen ELSE seen \cup {k})

arrayUniqBy(O, ary) == arrayUniqBySeen(O, ary, {})

\* Lines 107-115 and 142-150: the pool is rebuilt from the two lists.  With the
\* OS preference on, DNS_get_OS_DNSServers() (204-301) first replaces
\* OS_DNS_ROOT_NAME_SERVERS by new entries for the servers the operating system
\* names (osnames, read from the registry or /etc/resolv.conf).
UpdateServers(O, pref, flag, osnames) ==
    /\ getNameserversFromOS' = flag
    /\ PREF_DNS_ROOT_NAME_SERVERS' = pref
    /\ IF flag
       THEN LET O2 == O \o NewEntries(osnames)
                os == NewIds(Len(O), osnames)
            IN  /\ objs' = O2
                /\ OS_DNS_ROOT_NAME_SERVERS' = os
                /\ DNS_ROOT_NAME_SERVERS' = arrayUniqBy(O2, os \o pref)
       ELSE /\ objs' = O
            /\ OS_DNS_ROOT_NAME_SERVERS' = OS_DNS_ROOT_NAME_SERVERS
            /\ DNS_ROOT_NAME_SERVERS' = pref

dnsChangeGetNameserversFromOS(bool, osnames, maxCalls) ==
    /\ ncalls < maxCalls
    /\ ncalls' = ncalls + 1
    /\ UpdateServers(objs, PREF_DNS_ROOT_NAME_SERVERS, bool, osnames)
    /\ UNCHANGED <<lookups, conns>>

dnsChangeNameserver(nameserver, osnames, maxCalls) ==
    LET names == PrefServers(split(nameserver, SEMICOLON))
    IN  /\ ncalls < maxCalls
        /\ ncalls' = ncalls + 1
        /\ UpdateServers(objs \o NewEntries(names), NewIds(Len(objs), names),
                         getNameserversFromOS, osnames)
        /\ UNCHANGED <<lookups, conns>>

----------------------------------------------------------------------------
(* The resolver, dns.js 339-343 and 404-559 *)

\* The hop limit of line 428.
MAX_HOPS == 10

\* The stream-close statuses lines 480-490 tell apart.  A status is 0 or a
\* network error 0x804B0000 + n, written here as n: 2152398861 is 0x804B000D,
\* 2152398868 is 0x804B0014, and Components.results.NS_ERROR_NET_TIMEOUT is
\* 0x804B000E.
NS_ERROR_CONNECTION_REFUSED == 13
NS_ERROR_NET_RESET == 20
NS_ERROR_NET_TIMEOUT == 14

\* The QTYPE sent for a record type (452-466); 0 stands for the throw of
\* "Invalid record type.".
DNS_queryType(recordtype) ==
    CASE recordtype = "A" -> TYPE_A
      [] recordtype = "NS" -> TYPE_NS
      [] recordtype = "CNAME" -> TYPE_CNAME
      [] recordtype = "PTR" -> TYPE_PTR
      [] recordtype = "MX" -> TYPE_MX
      [] recordtype = "TXT" -> TYPE_TXT
      [] OTHER -> 0

\* The arguments of one callback(result, callbackdata, error) call.  result is
\* null or a list; error is absent (kind "") or one of the DNS_STRINGS messages,
\* some of which name a server.
NoError == [kind |-> "", server |-> <<>>]
Error(kind, server) == [kind |-> kind, server |-> server]
Null(error) == [null |-> TRUE, results |-> <<>>, error |-> error]
Results(results) == [null |-> FALSE, results |-> results, error |-> NoError]

\* Lines 413-419: the index in servers of the first entry that is alive, or 0.
DNS_nextAlive(O, servers) ==
    LET S == {i \in 1..Len(servers) : O[servers[i]].alive}
    IN  IF S = {} THEN 0 ELSE CHOOSE i \in S : \A j \in S : i <= j

\* An exception leaves the running handler (and is not caught by the code).
throw(w, q) == [w EXCEPT !.lookups[q].threw = @ + 1]

\* The callback function of a lookup: the caller's own, or one of the two
\* functions reverseDNS passes to queryDNS.  The function of the PTR lookup
\* (353-394) carries what its closure holds: ip, how often reverseDNS's own
\* callback was called and with what, and the obj made by each of its calls
\* (357-360; n is hostnames.length).  The function of an A lookup (371-392)
\* carries o2 (366-368): owner and k name the PTR lookup and its obj.
UserCallback == [kind |-> "user"]
PTRCallback(ip) ==
    [kind |-> "PTR", ip |-> ip, calls |-> 0, last |-> Null(NoError), obj |-> <<>>]
ACallback(ip, owner, k, curhostname) ==
    [kind |-> "A", ip |-> ip, owner |-> owner, k |-> k, curhostname |-> curhostname]

NewLookupWith(host, recordtype, servers, cb) ==
    [host |-> host, recordtype |-> recordtype, servers |-> servers,
     calls |-> 0, last |-> Null(NoError), threw |-> 0, cb |-> cb]

NewLookup(host, recordtype, servers) ==
    NewLookupWith(host, recordtype, servers, UserCallback)

RECURSIVE queryDNSRecursive(_, _, _, _, _, _)
RECURSIVE callback(_, _, _)

\* callback(...) of reverseDNS itself, p being its PTR lookup.
reverseDNS_callback(w, p, args) ==
    [w EXCEPT !.lookups[p].cb.calls = @ + 1, !.lookups[p].cb.last = args]

\* Lines 385-391, after ++cb.retobj.resolvectr.
reverseDNS_resolved(w, p, k) ==
    IF w.lookups[p].cb.obj[k].resolvectr = w.lookups[p].cb.obj[k].n
    THEN IF w.lookups[p].cb.obj[k].ret = <<>>
         THEN reverseDNS_callback(w, p, Null(NoError))
         ELSE reverseDNS_callback(w, p, Results(w.lookups[p].cb.obj[k].ret))
    ELSE w

\* Lines 372-379: arecs[j] === ip for some j.
reverseDNS_matched(arecs, ip) ==
    /\ ~arecs.null
    /\ \E j \in 1..Len(arecs.results) :
          arecs.results[j].kind = "string" /\ arecs.results[j].str = ip

\* The function of lines 371-392, called for the A lookup q with arecs.
reverseDNS_A(w, q, arecs, cb) ==
    reverseDNS_resolved(
        [w EXCEPT !.lookups[cb.owner].cb.obj[cb.k].ret =
                      IF reverseDNS_matched(arecs, cb.ip)
                      THEN Append(@, cb.curhostname) ELSE @,
                  !.lookups[cb.owner].cb.obj[cb.k].resolvectr = @ + 1],
        cb.owner, cb.k)

\* The loop of lines 365-393 from hostnames[i] on: one queryDNS(hostnames[i],
\* "A", ...) each, on the pool as it is.  A hostname that is not a string
\* makes host.split (447) throw once a server was picked, which ends the loop.
\* The sockets opened here are taken to open.
RECURSIVE reverseDNS_loop(_, _, _, _, _)
reverseDNS_loop(w, p, k, hostnames, i) ==
    IF i > Len(hostnames) THEN w
    ELSE IF /\ hostnames[i].kind # "string"
            /\ DNS_nextAlive(w.objs, DNS_ROOT_NAME_SERVERS) # 0
    THEN throw(w, p)
    ELSE reverseDNS_loop(
            queryDNSRecursive(
                [w EXCEPT !.lookups =
                    Append(@, NewLookupWith(hostnames[i].str, "A",
                                            DNS_ROOT_NAME_SERVERS,
                                            ACallback(w.lookups[p].cb.ip, p, k,
                                                      hostnames[i])))],
                Len(w.lookups) + 1, <<>>, 0, TRUE, FALSE),
            p, k, hostnames, i + 1)

\* The function of lines 353-394, called for the PTR lookup p.
reverseDNS_PTR(w, p, args) ==
    IF args.null THEN reverseDNS_callback(w, p, Null(args.error))
    ELSE reverseDNS_loop(
            [w EXCEPT !.lookups[p].cb.obj =
                Append(@, [ret |-> <<>>, resolvectr |-> 0,
                           n |-> Len(args.results)])],
            p, Len(w.lookups[p].cb.obj) + 1, args.results, 1)

\* callback(...) for lookup q: the lookup records how often it was called and
\* with what, and the function it was given runs.
callback(w, q, args) ==
    CASE w.lookups[q].cb.kind = "PTR" ->
            reverseDNS_PTR([w EXCEPT !.lookups[q].calls = @ + 1,
                                     !.lookups[q].last = args], q, args)
      [] w.lookups[q].cb.kind = "A" ->
            reverseDNS_A([w EXCEPT !.lookups[q].calls = @ + 1,
                                   !.lookups[q].last = args],
                         q, args, w.lookups[q].cb)
      [] OTHER -> [w EXCEPT !.lookups[q].calls = @ + 1, !.lookups[q].last = args]

\* Lines 447-450: every part of host.split("."), with its length before it.
RECURSIVE DNS_queryLabels(_)
DNS_queryLabels(hostparts) ==
    IF hostparts = <<>> THEN <<>>
    ELSE DNS_octetToStr(Len(Head(hostparts))) \o Head(hostparts)
         \o DNS_queryLabels(Tail(hostparts))

\* Lines 436-467: the query for a supported record type, "00" being the two
\* characters 0x30 0x30.
DNS_queryBody(host, recordtype) ==
    <<48, 48>> \o <<1>> \o <<0>>
    \o DNS_wordToStr(1) \o DNS_wordToStr(0) \o DNS_wordToStr(0) \o DNS_wordToStr(0)
    \o DNS_queryLabels(split(host, DOT)) \o DNS_octetToStr(0)
    \o DNS_wordToStr(DNS_queryType(recordtype)) \o DNS_wordToStr(1)

\* Line 470: the query with its length before it.
DNS_query(host, recordtype) ==
    DNS_wordToStr(Len(DNS_queryBody(host, recordtype)))
    \o DNS_queryBody(host, recordtype)

\* The listener of lines 472-545 and the connection it listens to.  state is
\* "open" until onStopRequest has been delivered, or "unopened" when
\* DNS_readAllFromSocket caught an exception (834-836) and no event will come;
\* failed records that the stream closed with a status other than 0; query is
\* what is written to the socket (DNS_readAllFromSocket, 795-796).
NewConn(q, server, serverObj, pooled, hops, ex, query) ==
    [q |-> q, server |-> server, serverObj |-> serverObj, pooled |-> pooled,
     hops |-> hops, query |-> query,
     msgsize |-> NaN, readcount |-> 0, responseHeader |-> <<>>,
     responseBody |-> <<>>, done |-> FALSE,
     state |-> IF ex THEN "unopened" ELSE "open", failed |-> FALSE]

\* queryDNSRecursive(server, host, recordtype, callback, callbackdata, hops,
\* servers) for lookup q.  pooled says that servers was given (it is then the
\* array the lookup was started with); ex says that opening the socket throws.
queryDNSRecursive(w, q, server, hops, pooled, ex) ==
    LET servers == w.lookups[q].servers
        i == DNS_nextAlive(w.objs, servers)
        srv == IF pooled THEN w.objs[servers[i]].server ELSE server
        serverObj == IF pooled THEN servers[i] ELSE 0
    IN  IF pooled /\ i = 0
        THEN callback(w, q, Null(Error("no DNS Server alive", <<>>)))
        ELSE IF hops = MAX_HOPS
        THEN callback(w, q, Null(Error("TOO_MANY_HOPS", <<>>)))
        ELSE IF DNS_queryType(w.lookups[q].recordtype) = 0
        THEN throw(w, q)
        ELSE [w EXCEPT !.conns =
                Append(@, NewConn(q, srv, serverObj, pooled, hops, ex,
                                  DNS_query(w.lookups[q].host,
                                            w.lookups[q].recordtype)))]

\* DNS_deliver with line 738 passing hops instead of hops+1.
DNS_deliver_sameHops(w, c, rd, ex) ==
    CASE rd.kind = "throw" -> throw(w, w.conns[c].q)
      [] rd.kind = "answer" -> callback(w, w.conns[c].q, Results(rd.results))
      [] rd.kind = "recurse" ->
            queryDNSRecursive(w, w.conns[c].q, rd.server, w.conns[c].hops,
                              FALSE, ex)
      [] OTHER -> callback(w, w.conns[c].q, Null(NoError))

\* Lines 726-746 for lookup q on connection c: what DNS_getRDData's outcome rd
\* does to the world.
DNS_deliver(w, c, rd, ex) ==
    CASE rd.kind = "throw" -> throw(w, w.conns[c].q)
      [] rd.kind = "answer" -> callback(w, w.conns[c].q, Results(rd.results))
      [] rd.kind = "recurse" ->
            queryDNSRecursive(w, w.conns[c].q, rd.server, w.conns[c].hops + 1,
                              FALSE, ex)
      [] OTHER -> callback(w, w.conns[c].q, Null(NoError))

\* Lines 530-542, the header being 14 bytes long and the body taken.
processComplete(w, c, ex, responseHeader, responseBody) ==
    DNS_deliver([w EXCEPT !.conns[c].responseHeader = substrFrom(responseHeader, 2),
                          !.conns[c].done = TRUE],
                c,
                DNS_getRDData(substrFrom(responseHeader, 2) \o responseBody,
                              w.conns[c].server),
                ex)

processBody(w, c, ex, readcount, responseHeader, msgsize, responseBody) ==
    IF readcount >= msgsize + 2
    THEN processComplete([w EXCEPT !.conns[c].msgsize = msgsize,
                                   !.conns[c].responseBody = responseBody],
                         c, ex, responseHeader, responseBody)
    ELSE [w EXCEPT !.conns[c].msgsize = msgsize,
                   !.conns[c].responseBody = responseBody]

\* Lines 524-529: the first 14 bytes received go to responseHeader.
processHeader(w, c, ex, readcount, responseHeader, rest) ==
    IF Len(responseHeader) = 14
    THEN processBody([w EXCEPT !.conns[c].readcount = readcount,
                               !.conns[c].responseHeader = responseHeader],
                     c, ex, readcount, responseHeader,
                     DNS_strToWord(substr(responseHeader, 0, 2)),
                     w.conns[c].responseBody \o rest)
    ELSE [w EXCEPT !.conns[c].readcount = readcount,
                   !.conns[c].responseHeader = responseHeader]

processTake(w, c, data, ex, take) ==
    processHeader(w, c, ex, w.conns[c].readcount + Len(data),
                  w.conns[c].responseHeader \o SubSeq(data, 1, take),
                  SubSeq(data, take + 1, Len(data)))

\* listener.process(data) of connection c (519-544), with the call of
\* DNS_getRDData it ends in.
process(w, c, data, ex) ==
    IF w.conns[c].done THEN w
    ELSE processTake(w, c, data, ex,
                     Min(14 - Len(w.conns[c].responseHeader), Len(data)))

\* The error message of lines 480-500 for a status that is not 0.
DNS_statusError(status, server) ==
    IF status = NS_ERROR_CONNECTION_REFUSED THEN Error("CONNECTION_REFUSED", server)
    ELSE IF status = NS_ERROR_NET_RESET THEN Error("TIMED_OUT", server)
    ELSE IF status = NS_ERROR_NET_TIMEOUT THEN Error("TIMED_OUT", server)
    ELSE Error("SERVER_ERROR", server)

\* finishedIncomplete without the callback of line 516.
finishedIncomplete_silent(p, c) == p

\* Lines 513-517, p being the world after this.process(data).
finishedIncomplete(p, c) ==
    IF ~p.conns[c].done
    THEN callback(p, p.conns[c].q,
                  Null(Error("INCOMPLETE_RESPONSE", p.conns[c].server)))
    ELSE p

\* finished without line 505, serverObj.alive = false.
finished_keepsAlive(w, c, status, ex) ==
    IF status # 0
    THEN IF ~w.conns[c].pooled
         THEN callback(w, w.conns[c].q,
                       Null(DNS_statusError(status, w.conns[c].server)))
         ELSE queryDNSRecursive(w, w.conns[c].q, <<>>, w.conns[c].hops, TRUE, ex)
    ELSE finishedIncomplete(process(w, c, <<>>, ex), c)

\* finished without the tests of servers (482-503): the error goes to the callback
\* whether or not servers was given.
finished_noFailover(w, c, status, ex) ==
    IF status # 0
    THEN callback(w, w.conns[c].q,
                  Null(DNS_statusError(status, w.conns[c].server)))
    ELSE finishedIncomplete(process(w, c, <<>>, ex), c)

\* listener.finished(data, status) of connection c (478-518).  data is "" when
\* the listener is not done (dataListener empties it after every process
\* call), and process ignores it when the listener is done.
finished(w, c, status, ex) ==
    IF status # 0
    THEN IF ~w.conns[c].pooled
         THEN callback(w, w.conns[c].q,
                       Null(DNS_statusError(status, w.conns[c].server)))
         ELSE queryDNSRecursive([w EXCEPT !.objs[w.conns[c].serverObj].alive = FALSE],
                                w.conns[c].q, <<>>, w.conns[c].hops, TRUE, ex)
    ELSE finishedIncomplete(process(w, c, <<>>, ex), c)

----------------------------------------------------------------------------
(* The operations *)

\* A handler's step to the world w, within the environment's bound on the
\* connections opened.  ex, that opening the socket throws, is a choice of the
\* environment only in a step that opens one.
Step(w, ex, maxConns) ==
    /\ Len(w.conns) <= maxConns
    /\ ex => Len(w.conns) > Len(conns)
    /\ objs' = w.objs
    /\ lookups' = w.lookups
    /\ conns' = w.conns
    /\ UNCHANGED <<PREF_DNS_ROOT_NAME_SERVERS, OS_DNS_ROOT_NAME_SERVERS,
                   DNS_ROOT_NAME_SERVERS, getNameserversFromOS>>

\* queryDNS(host, recordtype, callback, callbackdata), dns.js 339-343.
queryDNS(host, recordtype, ex, maxCalls, maxConns) ==
    /\ ncalls < maxCalls
    /\ ncalls' = ncalls + 1
    /\ Step(queryDNSRecursive(
                [World EXCEPT !.lookups =
                    Append(@, NewLookup(host, recordtype, DNS_ROOT_NAME_SERVERS))],
                Len(lookups) + 1, <<>>, 0, TRUE, ex),
            ex, maxConns)

\* DNS_ReverseIPHostname(ip), dns.js 397-402; a part ip.split(".") does not
\* have reads as "undefined".
DNS_ipPart(q, i) ==
    IF i <= Len(q) THEN q[i]
    ELSE <<117, 110, 100, 101, 102, 105, 110, 101, 100>>

DNS_ReverseIPHostname(ip) ==
    DNS_ipPart(split(ip, DOT), 4) \o DOT \o DNS_ipPart(split(ip, DOT), 3) \o DOT
    \o DNS_ipPart(split(ip, DOT), 2) \o DOT \o DNS_ipPart(split(ip, DOT), 1)
    \o <<46, 105, 110, 45, 97, 100, 100, 114, 46, 97, 114, 112, 97>>

\* reverseDNS(ip, callback, callbackdata), dns.js 345-395: the PTR lookup is
\* started; the rest happens in its callback.
reverseDNS(ip, ex, maxCalls, maxConns) ==
    /\ ncalls < maxCalls
    /\ ncalls' = ncalls + 1
    /\ Step(queryDNSRecursive(
                [World EXCEPT !.lookups =
                    Append(@, NewLookupWith(DNS_ReverseIPHostname(ip), "PTR",
                                            DNS_ROOT_NAME_SERVERS,
                                            PTRCallback(ip)))],
                Len(lookups) + 1, <<>>, 0, TRUE, ex),
            ex, maxConns)

\* dataListener.onDataAvailable of connection c with the bytes data (814-826).
\* Once process has returned false the streams are closed, and after an
\* exception the pump stops reading, so no data comes to a listener that is
\* done.
onDataAvailable(c, data, ex, maxConns) ==
    /\ conns[c].state = "open"
    /\ ~conns[c].done
    /\ Step(process(World, c, data, ex), ex, maxConns)
    /\ UNCHANGED ncalls

\* The listener is garbage once onStopRequest has returned: the record keeps
\* what the connection was for (lookup, server, hops, done) and drops the
\* buffers.
Closed(w, c, status) ==
    [w EXCEPT !.conns[c].state = "closed",
              !.conns[c].failed = (status # 0),
              !.conns[c].msgsize = NaN,
              !.conns[c].readcount = 0,
              !.conns[c].responseHeader = <<>>,
              !.conns[c].responseBody = <<>>]

\* dataListener.onStopRequest of connection c with the status (806-813).
onStopRequest(c, status, ex, maxConns) ==
    /\ conns[c].state = "open"
    /\ Step(Closed(finished(World, c, status, ex), c, status), ex, maxConns)
    /\ UNCHANGED ncalls

----------------------------------------------------------------------------
(* The environment: what callers ask and what the transport delivers *)

IsPrefix(s, t) == Len(s) <= Len(t) /\ SubSeq(t, 1, Len(s)) = s

\* The bytes connection l has received so far (while it is not done).
Received(l) == l.responseHeader \o l.responseBody

\* The next pieces the transport may deliver to l: a stream of streams that
\* continues what was received, cut at one of cuts or delivered to its end.
Chunks(l, streams, cuts) ==
    LET got == Len(Received(l))
    IN  {SubSeq(x[1], got + 1, x[2]) :
            x \in {x \in streams \X (cuts \cup {Len(t) : t \in streams}) :
                     /\ IsPrefix(Received(l), x[1])
                     /\ x[2] > got
                     /\ x[2] = Len(x[1]) \/ (x[2] \in cuts /\ x[2] < Len(x[1]))}}

\* 0, the three statuses the code names, and one more (NS_ERROR_UNKNOWN_HOST,
\* 0x804B001E).
Statuses ==
    {0, NS_ERROR_CONNECTION_REFUSED, NS_ERROR_NET_RESET, NS_ERROR_NET_TIMEOUT, 30}

Init ==
    /\ objs = <<>>
    /\ PREF_DNS_ROOT_NAME_SERVERS = <<>>
    /\ OS_DNS_ROOT_NAME_SERVERS = <<>>
    /\ DNS_ROOT_NAME_SERVERS = <<>>
    /\ getNameserversFromOS = FALSE
    /\ lookups = <<>>
    /\ conns = <<>>
    /\ ncalls = 0

\* The bounds of Spec: the calls the callers make (preference changes and
\* lookups) and the connections opened.
MaxCalls == 3
MaxConns == 3

\* " a ;;b"
NameserverInputs == {<<32, 97, 32, 59, 59, 98>>}
OSInputs == {<<SERVER_B>>}

Streams == {RespRefer(SERVER_B), RespAandTXT, RespNoQuestion}
Cuts == {14}

Next ==
    \/ \E b \in BOOLEAN, os \in OSInputs :
          dnsChangeGetNameserversFromOS(b, os, MaxCalls)
    \/ \E ns \in NameserverInputs, os \in OSInputs :
          dnsChangeNameserver(ns, os, MaxCalls)
    \/ \E ex \in BOOLEAN :
          queryDNS(<<104>>, "A", ex, MaxCalls, MaxConns)
    \/ \E c \in 1..Len(conns), ex \in BOOLEAN :
          \E data \in Chunks(conns[c], Streams, Cuts) :
              onDataAvailable(c, data, ex, MaxConns)
    \/ \E c \in 1..Len(conns), status \in Statuses, ex \in BOOLEAN :
          onStopRequest(c, status, ex, MaxConns)

Spec == Init /\ [][Next]_vars

----------------------------------------------------------------------------
(* One lookup followed through its referrals: the servers answer with
   referrals only, to "a" and to "b" in turn.  The transport is orderly here:
   a connection whose response was processed (and whose streams the code has
   closed, 820-823) gets its onStopRequest with status 0, and before any other
   connection gets an event; the caller starts a lookup when no connection
   is open. *)

\* The bounds of SpecHops.
HopCalls == 2
HopConns == 11

HopStreams == {RespRefer(SERVER_A), RespRefer(SERVER_B)}

\* No connection other than c has been processed and waits for its close.
Prompt(c) ==
    \A d \in 1..Len(conns) : d # c => ~(conns[d].state = "open" /\ conns[d].done)

\* No connection is open.
Idle ==
    \A d \in 1..Len(conns) : conns[d].state # "open"

NextHops ==
    \/ \E os \in OSInputs :
          dnsChangeGetNameserversFromOS(TRUE, os, HopCalls)
    \/ \E ns \in NameserverInputs, os \in OSInputs :
          dnsChangeNameserver(ns, os, HopCalls)
    \/ \E ex \in BOOLEAN :
          Idle /\ queryDNS(<<104>>, "A", ex, HopCalls, HopConns)
    \/ \E c \in 1..Len(conns), ex \in BOOLEAN :
          \E data \in Chunks(conns[c], HopStreams, {}) :
              Prompt(c) /\ onDataAvailable(c, data, ex, HopConns)
    \/ \E c \in 1..Len(conns), status \in Statuses, ex \in BOOLEAN :
          /\ Prompt(c)
          /\ conns[c].done => status = 0
          /\ onStopRequest(c, status, ex, HopConns)

SpecHops == Init /\ [][NextHops]_vars

----------------------------------------------------------------------------
(* One MX lookup and the responses the parser may meet: SpecParse *)

SERVER_M == <<109>>

\* One MX answer {10, m} for h.
MXRecord == RR(PTR12, TYPE_MX, W(10) \o NameOf(SERVER_M))

\* The MX answer alone, and with an additional A record 1.2.3.4 for m.
RespMX == Frame(Message(1, 1, 0, 0, Question(TYPE_MX) \o MXRecord))

RespMXGlue ==
    Frame(Message(1, 1, 0, 1,
        Question(TYPE_MX) \o MXRecord \o RR(NameOf(SERVER_M), TYPE_A, <<1, 2, 3, 4>>)))

\* The question's name is a pointer to offset 12, that is to itself.
RespLoop == Frame(Message(1, 0, 0, 0, PTR12 \o W(TYPE_MX) \o W(1)))

\* Twelve labels "a".
Labels12 == <<1, 97, 1, 97, 1, 97, 1, 97, 1, 97, 1, 97,
              1, 97, 1, 97, 1, 97, 1, 97, 1, 97, 1, 97>>

\* An NS answer whose owner name is twelve labels and a pointer to its RDATA
\* (offset 12 + 7 + 26 + 10 = 55), a name of twelve labels: no loop, one
\* pointer, 25 labels and pointers.
RespLongName ==
    Frame(Message(1, 1, 0, 0,
        Question(TYPE_MX) \o RR(Labels12 \o <<192, 55>>, TYPE_NS, Labels12 \o <<0>>)))

\* A referral to "a" whose NS record is owned by a name of twenty labels "a",
\* written out without compression.
Labels20 == Labels12 \o <<1, 97, 1, 97, 1, 97, 1, 97, 1, 97, 1, 97, 1, 97, 1, 97>>

RespLongOwner ==
    Frame(Message(1, 0, 1, 0,
        Question(TYPE_MX) \o RR(Labels20 \o <<0>>, TYPE_NS, NameOf(SERVER_A))))

\* The bounds of SpecParse.
ParseCalls == 3
ParseConns == 2

\* A framed message of two bytes: shorter than the 12-byte header.
RespShort == Frame(<<48, 48>>)

ParseStreams ==
    {RespMX, RespMXGlue, RespLoop, RespLongName, RespLongOwner, RespShort}
ParseCuts == {3, 14}

NextParse ==
    \/ \E b \in BOOLEAN, os \in OSInputs :
          dnsChangeGetNameserversFromOS(b, os, ParseCalls)
    \/ \E ns \in NameserverInputs, os \in OSInputs :
          dnsChangeNameserver(ns, os, ParseCalls)
    \/ Idle /\ queryDNS(<<104>>, "MX", FALSE, ParseCalls, ParseConns)
    \/ \E c \in 1..Len(conns) :
          \E data \in Chunks(conns[c], ParseStreams, ParseCuts) :
              onDataAvailable(c, data, FALSE, ParseConns)
    \/ \E c \in 1..Len(conns), status \in {0, NS_ERROR_NET_RESET} :
          /\ conns[c].done => status = 0
          /\ onStopRequest(c, status, FALSE, ParseConns)

SpecParse == Init /\ [][NextParse]_vars

----------------------------------------------------------------------------
(* The queries sent for several names and record types: SpecQuery *)

\* "h", "ab.c", and twenty labels "a" joined by dots.
HOST_ABC == <<97, 98, 46, 99>>
HOST_20 == <<97, 46, 97, 46, 97, 46, 97, 46, 97, 46, 97, 46, 97, 46, 97, 46,
             97, 46, 97, 46, 97, 46, 97, 46, 97, 46, 97, 46, 97, 46, 97, 46,
             97, 46, 97, 46, 97, 46, 97>>

QueryHosts == {<<104>>, HOST_ABC, HOST_20}
QueryTypes == {"A", "NS", "CNAME", "PTR", "MX", "TXT", "AAAA"}

\* The bounds of SpecQuery.
QueryCalls == 3
QueryConns == 2

NextQuery ==
    \/ \E ns \in NameserverInputs, os \in OSInputs :
          dnsChangeNameserver(ns, os, QueryCalls)
    \/ \E host \in QueryHosts, recordtype \in QueryTypes :
          queryDNS(host, recordtype, FALSE, QueryCalls, QueryConns)

SpecQuery == Init /\ [][NextQuery]_vars


----------------------------------------------------------------------------
(* SpecPrefs: the two preference setters alone, on nameserver strings with
   blanks, empty elements and repeated servers, and on operating-system lists
   with and without repeated servers. *)

PrefCalls == 3

PrefInputs ==
    { <<32, 97, 32, 59, 59, 98>>,          \* " a ;;b"
      <<98, 59, 97, 59, 98>>,              \* "b;a;b"
      <<>>,                                \* ""
      PROTO \o <<59>> \o PROTO }           \* "__proto__;__proto__"

PrefOS == { <<SERVER_B, SERVER_B>>, <<SERVER_A>> }

NextPrefs ==
    \/ \E n \in PrefInputs, os \in PrefOS : dnsChangeNameserver(n, os, PrefCalls)
    \/ \E b \in BOOLEAN, os \in PrefOS :
          dnsChangeGetNameserversFromOS(b, os, PrefCalls)

SpecPrefs == Init /\ [][NextPrefs]_vars

----------------------------------------------------------------------------
(* SpecReverse: reverse lookups of 1.2.3.4 on a pool of one or two servers.
   The PTR response names the hosts "a" and "b"; an A response is 1.2.3.4 or
   5.6.7.8. *)

IP_1234 == <<49, 46, 50, 46, 51, 46, 52>>

RespPTR ==
    Frame(Message(1, 2, 0, 0,
        Question(TYPE_PTR) \o RR(PTR12, TYPE_PTR, NameOf(SERVER_A))
                           \o RR(PTR12, TYPE_PTR, NameOf(SERVER_B))))

RespA5678 ==
    Frame(Message(1, 1, 0, 0, Question(TYPE_A) \o RR(PTR12, TYPE_A, <<5, 6, 7, 8>>)))

ReverseCalls == 2
ReverseConns == 3

ReverseStreams == {RespPTR, RespA, RespA5678, RespEmpty}
ReverseCuts == {14}

NextReverse ==
    \/ \E ns \in NameserverInputs, os \in OSInputs :
          dnsChangeNameserver(ns, os, ReverseCalls)
    \/ \E ex \in BOOLEAN :
          Idle /\ reverseDNS(IP_1234, ex, ReverseCalls, ReverseConns)
    \/ \E c \in 1..Len(conns) :
          \E data \in Chunks(conns[c], ReverseStreams, ReverseCuts) :
              onDataAvailable(c, data, FALSE, ReverseConns)
    \/ \E c \in 1..Len(conns), status \in {0, NS_ERROR_NET_RESET} :
          onStopRequest(c, status, FALSE, ReverseConns)

SpecReverse == Init /\ [][NextReverse]_vars

----------------------------------------------------------------------------
(* SpecAnswers: one lookup at a time of type A or TXT, on the pool b or the
   pool a, b.  The responses have answers: CNAMEs only, with and without an NS
   authority naming "a", and TXT records of no, one, two, ten, eleven and
   twelve fragments, each followed by the A record 1.2.3.4. *)

\* Only a CNAME in the answer section, and an NS authority naming the server.
RespCNAMERefer(server) ==
    Frame(Message(1, 1, 1, 0,
        Question(TYPE_A) \o RR(PTR12, TYPE_CNAME, NameOf(SERVER_B))
                         \o RR(PTR12, TYPE_NS, NameOf(server))))

\* The RDATA of a TXT record: every fragment with its length before it.
RECURSIVE TxtRdata(_)
TxtRdata(fragments) ==
    IF fragments = <<>> THEN <<>>
    ELSE <<Len(Head(fragments))>> \o Head(fragments) \o TxtRdata(Tail(fragments))

\* k fragments "a", "b", "c", ...
Fragments(k) == [i \in 1..k |-> <<96 + i>>]

RespTXTof(fragments) ==
    Frame(Message(1, 2, 0, 0,
        Question(TYPE_TXT) \o RR(PTR12, TYPE_TXT, TxtRdata(fragments))
                           \o RR(PTR12, TYPE_A, <<1, 2, 3, 4>>)))

\* "hi", "", "xyz"
FragmentsMixed == << <<104, 105>>, <<>>, <<120, 121, 122>> >>

TxtCounts == {0, 1, 2, 10, 11, 12}

AnswerCalls == 3
AnswerConns == 2

AnswerStreams ==
    {RespCNAME, RespCNAMERefer(SERVER_A), RespTXTof(FragmentsMixed)}
    \cup {RespTXTof(Fragments(k)) : k \in TxtCounts}
AnswerCuts == {14}

NextAnswers ==
    \/ \E b \in BOOLEAN, os \in OSInputs :
          dnsChangeGetNameserversFromOS(b, os, AnswerCalls)
    \/ \E ns \in NameserverInputs, os \in OSInputs :
          dnsChangeNameserver(ns, os, AnswerCalls)
    \/ \E recordtype \in {"A", "TXT"} :
          Idle /\ queryDNS(<<104>>, recordtype, FALSE, AnswerCalls, AnswerConns)
    \/ \E c \in 1..Len(conns) :
          \E data \in Chunks(conns[c], AnswerStreams, AnswerCuts) :
              onDataAvailable(c, data, FALSE, AnswerConns)
    \/ \E c \in 1..Len(conns), status \in {0, NS_ERROR_NET_RESET} :
          /\ conns[c].done => status = 0
          /\ onStopRequest(c, status, FALSE, AnswerConns)

SpecAnswers == Init /\ [][NextAnswers]_vars

----------------------------------------------------------------------------
(* The properties *)

\* The connections lookup q has opened, or tried to open.
ConnsOf(q) == {c \in 1..Len(conns) : conns[c].q = q}

\* The attempts of lookup q on its pool.
PoolConnsOf(q) == {c \in ConnsOf(q) : conns[c].pooled}

\* The step is the one in which the response on connection c is received in
\* full and handed to DNS_getRDData, and this is what DNS_getRDData does.
Processed(c) == ~conns[c].done /\ conns'[c].done
Outcome(c) == DNS_getRDData(Received(conns'[c]), conns[c].server)

\* The step is the stream-close event of connection c, with status 0 or with
\* another status.
ClosedOk(c) ==
    conns[c].state = "open" /\ conns'[c].state = "closed" /\ ~conns'[c].failed
ClosedFailed(c) ==
    conns[c].state = "open" /\ conns'[c].state = "closed" /\ conns'[c].failed

\* The step calls lookup q's callback once, with null and the error kind.
CallsBackWith(q, kind) ==
    /\ lookups'[q].calls = lookups[q].calls + 1
    /\ lookups'[q].last.null
    /\ lookups'[q].last.error.kind = kind

\* The step opens one more connection / no connection.
OpensOne == Len(conns') = Len(conns) + 1
OpensNone == Len(conns') = Len(conns)

\* C1: every lookup ends with its callback invoked.  Stated for the runs that
\* have come to their end: a lookup none of whose connections is open any more
\* (each got its stream-close event or could not be opened) has had its
\* callback invoked at least once.
C1_CallbackInvoked ==
    \A q \in 1..Len(lookups) :
        (\A c \in ConnsOf(q) : conns[c].state # "open") => lookups[q].calls >= 1

\* C2: when the response received in full is one DNS_getRDData rejects
\* (QDCOUNT # 1, a count above 128, an answer of an unknown type), the step
\* that processes it calls the lookup's callback with null and an error, and
\* opens no connection.
C2_InvalidResponseSurfaced ==
    [][\A c \in 1..Len(conns) :
          (Processed(c) /\ Outcome(c).kind = "throw")
          => /\ lookups'[conns[c].q].calls = lookups[conns[c].q].calls + 1
             /\ lookups'[conns[c].q].last.null
             /\ lookups'[conns[c].q].last.error.kind # ""
             /\ OpensNone]_vars

\* C3: the hop counter.  Every connection carries a hop counter below 10, the
\* attempts on the pool carry 0, and a lookup follows fewer than 10 referrals.
HopsBounded ==
    /\ \A c \in 1..Len(conns) :
          /\ conns[c].hops \in 0..(MAX_HOPS - 1)
          /\ conns[c].pooled => conns[c].hops = 0
    /\ \A q \in 1..Len(lookups) :
          Cardinality(ConnsOf(q) \ PoolConnsOf(q)) < MAX_HOPS

\* A connection is opened by the start of a lookup, with counter 0; or by
\* failover from a failed attempt, with that attempt's counter; or by a
\* referral, with the referring connection's counter plus 1.
HopsOfNew(new) ==
    \/ /\ Len(lookups') = Len(lookups) + 1
       /\ new.q = Len(lookups')
       /\ new.pooled /\ new.hops = 0
    \/ \E c \in 1..Len(conns) :
          /\ conns[c].q = new.q
          /\ ClosedFailed(c) /\ conns[c].pooled
          /\ new.pooled /\ new.hops = conns[c].hops
    \/ \E c \in 1..Len(conns) :
          /\ conns[c].q = new.q
          /\ Processed(c) /\ Outcome(c).kind = "recurse"
          /\ ~new.pooled /\ new.hops = conns[c].hops + 1

\* A referral received with counter h opens a connection if h + 1 < 10, and
\* otherwise calls the callback with TOO_MANY_HOPS and opens none.
HopsOfReferral(c) ==
    (Processed(c) /\ Outcome(c).kind = "recurse")
    => IF conns[c].hops + 1 < MAX_HOPS
       THEN OpensOne /\ lookups'[conns[c].q].calls = lookups[conns[c].q].calls
       ELSE OpensNone /\ CallsBackWith(conns[c].q, "TOO_MANY_HOPS")

C4_NoRetryOfDeadEntry ==
    \A q \in 1..Len(lookups) :
        /\ \A c \in PoolConnsOf(q), d \in PoolConnsOf(q) :
              c < d => /\ conns[c].failed
                       /\ ~objs[conns[c].serverObj].alive
                       /\ conns[d].serverObj # conns[c].serverObj
        /\ Cardinality(PoolConnsOf(q)) <= Len(lookups[q].servers)

\* A lookup made a second attempt on its pool.
C4_Witness ==
    \E q \in 1..Len(lookups) :
        \E c \in PoolConnsOf(q), d \in PoolConnsOf(q) :
            c < d /\ conns[c].failed /\ conns[d].state = "closed"

\* C5: the first attempt of every lookup is on the first entry of the pool
\* the lookup was started with, and a lookup with a pool makes an attempt.
C5_FirstAttemptOnFirstEntry ==
    \A q \in 1..Len(lookups) :
        /\ \A c \in PoolConnsOf(q) :
              (\A d \in PoolConnsOf(q) : c <= d)
              => conns[c].serverObj = lookups[q].servers[1]
        /\ (Len(lookups[q].servers) > 0 /\ lookups[q].calls > 0)
           => PoolConnsOf(q) # {}

\* C6: a lookup called back with "no DNS Server alive" has itself made a
\* failed attempt on every entry of its pool.
C6_NoServerAliveAfterOwnAttempts ==
    \A q \in 1..Len(lookups) :
        lookups[q].last.error.kind = "no DNS Server alive"
        => \A i \in 1..Len(lookups[q].servers) :
              \E c \in PoolConnsOf(q) :
                  conns[c].serverObj = lookups[q].servers[i] /\ conns[c].failed

\* C7: when an attempt on the pool closes with a status other than 0, its
\* entry is marked not alive; if an entry of the pool is alive after that, one
\* connection is opened, to the first such entry in the pool's order, with the
\* same hop counter, and the callback is not called; if none is, the callback
\* is called with "no DNS Server alive" and no connection is opened.
FirstAlive(servers, i) ==
    /\ objs'[servers[i]].alive
    /\ \A j \in 1..(i - 1) : ~objs'[servers[j]].alive

FailoverOf(c, q, servers) ==
    /\ ~objs'[conns[c].serverObj].alive
    /\ IF \E i \in 1..Len(servers) : objs'[servers[i]].alive
       THEN /\ OpensOne
            /\ lookups'[q].calls = lookups[q].calls
            /\ conns'[Len(conns')].q = q
            /\ conns'[Len(conns')].pooled
            /\ conns'[Len(conns')].hops = conns[c].hops
            /\ \E i \in 1..Len(servers) :
                  /\ FirstAlive(servers, i)
                  /\ conns'[Len(conns')].serverObj = servers[i]
                  /\ conns'[Len(conns')].server = objs[servers[i]].server
       ELSE /\ OpensNone
            /\ CallsBackWith(q, "no DNS Server alive")

C8_SingleServerError ==
    \A q \in 1..Len(lookups) : \A c \in PoolConnsOf(q) :
        (Len(lookups[q].servers) = 1 /\ conns[c].failed)
        => /\ lookups[q].calls >= 1
           /\ lookups[q].last.error.kind \in
                  {"CONNECTION_REFUSED", "TIMED_OUT", "SERVER_ERROR"}
           /\ lookups[q].last.error.server = conns[c].server

\* C9: when a connection closes with status 0 before the 2 + msglen bytes of
\* its response were received, the callback is called once with null and
\* INCOMPLETE_RESPONSE naming the connection's server; no connection is opened
\* and no alive flag changes.
Incomplete(l) ==
    /\ ~l.done
    /\ \/ Len(l.responseHeader) < 2
       \/ l.readcount < DNS_strToWord(substr(l.responseHeader, 0, 2)) + 2

C9_IncompleteResponse ==
    [][\A c \in 1..Len(conns) :
          (ClosedOk(c) /\ Incomplete(conns[c]))
          => /\ CallsBackWith(conns[c].q, "INCOMPLETE_RESPONSE")
             /\ lookups'[conns[c].q].last.error.server = conns[c].server
             /\ OpensNone
             /\ objs' = objs]_vars

\* A connection closed with status 0 after the first 14 bytes of a longer
\* response, and its lookup called back with INCOMPLETE_RESPONSE.
C9_Witness ==
    \E c \in 1..Len(conns) :
        /\ conns[c].state = "closed" /\ ~conns[c].failed /\ ~conns[c].done
        /\ lookups[conns[c].q].calls = 1
        /\ lookups[conns[c].q].last.error.kind = "INCOMPLETE_RESPONSE"
        /\ lookups[conns[c].q].last.error.server = conns[c].server

\* C10: the list a lookup delivers is the rdata of the answer records whose
\* type is the QTYPE of the requested record type, in their order.
AnswerRecs(str) ==
    DNS_readRecs(str, Plus(DNS_readDomain(str, 12).idx, 4),
                 DNS_strToWord(substr(str, 6, 2))).recs

RECURSIVE RdataOfType(_, _)
RdataOfType(recs, type) ==
    IF recs = <<>> THEN <<>>
    ELSE (IF Head(recs).type = type THEN <<Head(recs).rddata>> ELSE <<>>)
         \o RdataOfType(Tail(recs), type)

C10_OnlyRequestedType ==
    [][\A c \in 1..Len(conns) :
          (Processed(c) /\ Outcome(c).kind = "answer")
          => lookups'[conns[c].q].last.results =
                 RdataOfType(AnswerRecs(Received(conns'[c])),
                             DNS_queryType(lookups[conns[c].q].recordtype))]_vars

\* C11: an MX lookup whose response holds MX answers is called back with one
\* element per answer, each carrying as address the rdata of the additional A
\* records owned by its host, in order, or null when there is none.
AdditionalRecs(str) ==
    LET an == DNS_readRecs(str, Plus(DNS_readDomain(str, 12).idx, 4),
                           DNS_strToWord(substr(str, 6, 2)))
        au == DNS_readRecs(str, an.idx, DNS_strToWord(substr(str, 8, 2)))
    IN  DNS_readRecs(str, au.idx, DNS_strToWord(substr(str, 10, 2))).recs

RECURSIVE AddressesOf(_, _)
AddressesOf(host, recs) ==
    IF recs = <<>> THEN <<>>
    ELSE (IF Head(recs).type = TYPE_A /\ Head(recs).dom = host
          THEN <<Head(recs).rddata.str>> ELSE <<>>)
         \o AddressesOf(host, Tail(recs))

AddressIs(address, expected) ==
    IF expected = <<>> THEN address = "null"
    ELSE address \notin {"null", "undefined"} /\ address = expected

C11_MXAddress ==
    [][\A c \in 1..Len(conns) :
          (/\ Processed(c)
           /\ lookups[conns[c].q].recordtype = "MX"
           /\ AnswerRecs(Received(conns'[c])) # <<>>
           /\ \A i \in DOMAIN AnswerRecs(Received(conns'[c])) :
                 AnswerRecs(Received(conns'[c]))[i].type = TYPE_MX)
          => /\ lookups'[conns[c].q].calls = lookups[conns[c].q].calls + 1
             /\ ~lookups'[conns[c].q].last.null
             /\ Len(lookups'[conns[c].q].last.results) =
                    Len(AnswerRecs(Received(conns'[c])))
             /\ \A j \in DOMAIN lookups'[conns[c].q].last.results :
                   AddressIs(lookups'[conns[c].q].last.results[j].address,
                             AddressesOf(lookups'[conns[c].q].last.results[j].host,
                                         AdditionalRecs(Received(conns'[c]))))]_vars

\* C12: reading a name at any offset of a response takes at most 20 labels
\* and pointers in all, and does not exhaust the stack.
C12_ReadDomainBounded ==
    [][\A c \in 1..Len(conns) :
          Processed(c)
          => \A idx \in 0..(Len(Received(conns'[c])) - 1) :
                /\ ~DNS_readDomain(Received(conns'[c]), idx).thrown
                /\ DNS_readDomainSteps(Received(conns'[c]), idx, 20, 0) <= 20]_vars

\* C13: for a response that passes the header checks and whose answers have
\* recognized types, the parser's cursor is, after the question and after each
\* of the ANCOUNT + NSCOUNT + ARCOUNT records, where the wire format puts it:
\* after the name (labels up to the zero byte or a pointer), the 4 bytes of
\* the question or the 10 bytes of the record, and RDLENGTH bytes of RDATA.
RECURSIVE WireNameEnd(_, _)
WireNameEnd(str, idx) ==
    IF idx >= Len(str) THEN Len(str)
    ELSE IF str[idx + 1] = 0 THEN idx + 1
    ELSE IF str[idx + 1] >= 192 THEN idx + 2
    ELSE WireNameEnd(str, idx + 1 + str[idx + 1])

WireWord(str, idx) == DNS_strToWord(substr(str, idx, 2))

WireRecEnd(str, idx) ==
    WireNameEnd(str, idx) + 10 + WireWord(str, WireNameEnd(str, idx) + 8)

RECURSIVE WireRecsEnd(_, _, _)
WireRecsEnd(str, idx, n) ==
    IF n = 0 THEN idx ELSE WireRecsEnd(str, WireRecEnd(str, idx), n - 1)

WireChecksPass(str) ==
    /\ Len(str) >= 12
    /\ WireWord(str, 4) = 1
    /\ WireWord(str, 6) <= 128 /\ WireWord(str, 8) <= 128 /\ WireWord(str, 10) <= 128
    /\ \A k \in 1..WireWord(str, 6) :
          DNS_recognized(
              WireWord(str, WireNameEnd(str,
                  WireRecsEnd(str, WireNameEnd(str, 12) + 4, k - 1))))

CursorFollowsWire(str) ==
    /\ Plus(DNS_readDomain(str, 12).idx, 4) = WireNameEnd(str, 12) + 4
    /\ \A k \in 1..(WireWord(str, 6) + WireWord(str, 8) + WireWord(str, 10)) :
          /\ Len(DNS_readRecs(str, WireNameEnd(str, 12) + 4, k).recs) = k
          /\ DNS_readRecs(str, WireNameEnd(str, 12) + 4, k).idx =
                 WireRecsEnd(str, WireNameEnd(str, 12) + 4, k)

C13_CursorAfterRecords ==
    [][\A c \in 1..Len(conns) :
          (Processed(c) /\ WireChecksPass(Received(conns'[c])))
          => CursorFollowsWire(Received(conns'[c]))]_vars

\* C14: for a name made of labels of 1..63 bytes, reading the question of the
\* query sent (the name at offset 12 of the message without its length
\* prefix, then two bytes) gives back the name and the code of the record
\* type; and two queries with the same bytes are for the same name and type.
LabelsWellFormed(host) ==
    \A i \in DOMAIN split(host, DOT) : Len(split(host, DOT)[i]) \in 1..63

QuestionDecodes(query, host, recordtype) ==
    /\ DNS_readDomain(substrFrom(query, 2), 12).domainname = host
    /\ DNS_strToWord(substr(substrFrom(query, 2),
                            DNS_readDomain(substrFrom(query, 2), 12).idx, 2))
           = DNS_queryType(recordtype)

C14_QueryRoundTrip ==
    /\ \A c \in 1..Len(conns) :
          LabelsWellFormed(lookups[conns[c].q].host)
          => QuestionDecodes(conns[c].query, lookups[conns[c].q].host,
                             lookups[conns[c].q].recordtype)
    /\ \A c \in 1..Len(conns), d \in 1..Len(conns) :
          conns[c].query = conns[d].query
          => /\ lookups[conns[c].q].host = lookups[conns[d].q].host
             /\ lookups[conns[c].q].recordtype = lookups[conns[d].q].recordtype

\* C15: the bytes sent are the length of what follows, the header 00 00 01 00
\* 00 01 00 00 00 00 00 00, the labels with their lengths, a zero byte, the
\* QTYPE code of the record type and QCLASS 1.
RECURSIVE WireLabels(_)
WireLabels(labels) ==
    IF labels = <<>> THEN <<>>
    ELSE <<Len(Head(labels))>> \o Head(labels) \o WireLabels(Tail(labels))

WireTypeCode(recordtype) ==
    CASE recordtype = "A" -> 1 [] recordtype = "NS" -> 2
      [] recordtype = "CNAME" -> 5 [] recordtype = "PTR" -> 12
      [] recordtype = "MX" -> 15 [] recordtype = "TXT" -> 16

WireQuery(host, recordtype) ==
    Frame(<<0, 0, 1, 0, 0, 1, 0, 0, 0, 0, 0, 0>>
          \o WireLabels(split(host, DOT)) \o <<0>>
          \o W(WireTypeCode(recordtype)) \o W(1))

C15_QueryBytes ==
    \A c \in 1..Len(conns) :
        conns[c].query = WireQuery(lookups[conns[c].q].host,
                                   lookups[conns[c].q].recordtype)

\* C17: every call of a lookup's callback passes either a non-empty list and
\* no error, or null; and null without an error only in the step that parsed
\* a complete response with no answer other than CNAMEs and no NS authority
\* naming another server than the one asked.  The response is read here as
\* the wire format has it.
RECURSIVE WireName(_, _, _)
WireName(str, idx, fuel) ==
    IF fuel = 0 \/ idx >= Len(str) \/ str[idx + 1] = 0 THEN <<>>
    ELSE IF str[idx + 1] >= 192
    THEN WireName(str, (str[idx + 1] % 64) * 256 + str[idx + 2], fuel - 1)
    ELSE SubSeq(str, idx + 2, idx + 1 + str[idx + 1])
         \o (IF WireName(str, idx + 1 + str[idx + 1], fuel - 1) = <<>> THEN <<>>
             ELSE DOT \o WireName(str, idx + 1 + str[idx + 1], fuel - 1))

\* Where the k-th record after the question starts, its type, and the name
\* its RDATA starts with.
WireRecStart(str, k) == WireRecsEnd(str, WireNameEnd(str, 12) + 4, k - 1)
WireRecType(str, k) == WireWord(str, WireNameEnd(str, WireRecStart(str, k)))
WireRecTarget(str, k) ==
    WireName(str, WireNameEnd(str, WireRecStart(str, k)) + 10, Len(str))

WireNothingUsable(str, server) ==
    /\ \A k \in 1..WireWord(str, 6) : WireRecType(str, k) = TYPE_CNAME
    /\ \A k \in (WireWord(str, 6) + 1)..(WireWord(str, 6) + WireWord(str, 8)) :
          WireRecType(str, k) = TYPE_NS => WireRecTarget(str, k) = server

CallbackContract(q, args) ==
    /\ args.null \/ (Len(args.results) > 0 /\ args.error.kind = "")
    /\ (args.null /\ args.error.kind = "")
       => \E c \in ConnsOf(q) :
             /\ Processed(c)
             /\ WireChecksPass(Received(conns'[c]))
             /\ WireNothingUsable(Received(conns'[c]), conns[c].server)

C17_CallbackContract ==
    [][\A q \in 1..Len(lookups') :
          lookups'[q].calls > (IF q <= Len(lookups) THEN lookups[q].calls ELSE 0)
          => CallbackContract(q, lookups'[q].last)]_vars

\* C18: a step of dnsChangeNameserver or dnsChangeGetNameserversFromOS leaves
\* the pool equal to the user list (the trimmed, non-empty elements of the
\* last nameserver string) when the OS flag is false, and to the OS list
\* followed by the user list with only the first occurrence of every server
\* kept when it is true; a second call with the same argument leaves the pool
\* as the first did.
ServersOf(O, ary) == [i \in 1..Len(ary) |-> O[ary[i]].server]

FirstOccurrences(names) ==
    LET keep == {i \in 1..Len(names) : \A j \in 1..(i - 1) : names[j] # names[i]}
        Nth(S, n) == CHOOSE i \in S : Cardinality({j \in S : j < i}) = n - 1
    IN  [n \in 1..Cardinality(keep) |-> names[Nth(keep, n)]]

\* The user list of each nameserver string of PrefInputs.
UserList(nameserver) ==
    CASE nameserver = <<32, 97, 32, 59, 59, 98>> -> <<SERVER_A, SERVER_B>>
      [] nameserver = <<98, 59, 97, 59, 98>> -> <<SERVER_B, SERVER_A, SERVER_B>>
      [] nameserver = <<>> -> <<>>
      [] OTHER -> <<PROTO, PROTO>>

PoolIs(flag, user, osnames) ==
    /\ ServersOf(objs', PREF_DNS_ROOT_NAME_SERVERS') = user
    /\ ServersOf(objs', DNS_ROOT_NAME_SERVERS')
          = IF flag THEN FirstOccurrences(osnames \o user) ELSE user

C18_PoolFromPreferences ==
    [][/\ \A n \in PrefInputs, os \in PrefOS :
             dnsChangeNameserver(n, os, PrefCalls)
             => PoolIs(getNameserversFromOS, UserList(n), os)
       /\ \A b \in BOOLEAN, os \in PrefOS :
             dnsChangeGetNameserversFromOS(b, os, PrefCalls)
             => PoolIs(b, ServersOf(objs, PREF_DNS_ROOT_NAME_SERVERS), os)]_vars

\* C19: the callback of a lookup is invoked at most once, whatever data and
\* stream-close events arrive and whatever their status, and a lookup whose
\* callback has been invoked opens no further connection.
C19_CallbackAtMostOnce ==
    [][\A q \in 1..Len(lookups') :
          /\ lookups'[q].calls <= 1
          /\ (q <= Len(lookups) /\ lookups[q].calls >= 1)
             => \A c \in (Len(conns) + 1)..Len(conns') : conns'[c].q # q]_vars

\* C20: however the response is cut into pieces, it is handed to the parser
\* once, in the step after which the bytes received are at least msglen + 2
\* (msglen being the first two bytes, big-endian); what is handed over is what
\* was received without the two length bytes; what arrives later changes
\* nothing; and a stream that closes with status 0 before msglen + 2 bytes
\* came is reported as incomplete.
AllReceived(l) ==
    IF l.done THEN W(l.msgsize) \o Received(l) ELSE Received(l)

Complete(bytes) ==
    Len(bytes) >= 2 /\ Len(bytes) >= bytes[1] * 256 + bytes[2] + 2

HandOver(l, m) ==
    /\ m.done <=> Complete(AllReceived(m))
    /\ m.readcount = Len(AllReceived(m))
    /\ IsPrefix(AllReceived(l), AllReceived(m))
    /\ l.done => m = l

C20_HandOverWhenComplete ==
    [][\A c \in 1..Len(conns) :
          /\ conns'[c].state = "open" => HandOver(conns[c], conns'[c])
          /\ (conns[c].state = "open" /\ conns'[c].state = "closed")
             => conns'[c].done = conns[c].done
          /\ (ClosedOk(c) /\ ~Complete(AllReceived(conns[c])))
             => CallsBackWith(conns[c].q, "INCOMPLETE_RESPONSE")]_vars

\* C16: reverseDNS calls its callback exactly once per call.  It is called
\* with null and the PTR lookup's error when the PTR lookup gave null, and
\* otherwise only when every A lookup, one for each PTR hostname, has called
\* back, with the hostnames whose A result holds the ip, or with null when
\* there is none.  Exactly once is stated for the calls that have come to
\* their end: no connection of the PTR lookup or of its A lookups is open.
ReverseCallsIn(L) == {p \in 1..Len(L) : L[p].cb.kind = "PTR"}

ALookups(L, p) ==
    {q \in 1..Len(L) : L[q].cb.kind = "A" /\ L[q].cb.owner = p}

\* The A lookup started for the i-th hostname, or 0.
ALookup(L, p, i) ==
    IF \E q \in ALookups(L, p) : Cardinality({r \in ALookups(L, p) : r < q}) = i - 1
    THEN CHOOSE q \in ALookups(L, p) :
            Cardinality({r \in ALookups(L, p) : r < q}) = i - 1
    ELSE 0

Resolves(L, q, ip) ==
    /\ ~L[q].last.null
    /\ \E j \in 1..Len(L[q].last.results) : L[q].last.results[j] = StringData(ip)

Forward(L, p) ==
    {i \in 1..Len(L[p].last.results) : Resolves(L, ALookup(L, p, i), L[p].cb.ip)}

ReverseResult(L, p) ==
    IF L[p].last.null
    THEN L[p].cb.last = Null(L[p].last.error)
    ELSE /\ \A i \in 1..Len(L[p].last.results) :
               ALookup(L, p, i) # 0 /\ L[ALookup(L, p, i)].calls >= 1
         /\ L[p].cb.last.null <=> Forward(L, p) = {}
         /\ L[p].cb.last.error = NoError
         /\ Len(L[p].cb.last.results) = Cardinality(Forward(L, p))
         /\ {L[p].cb.last.results[j] : j \in 1..Len(L[p].cb.last.results)}
               = {L[p].last.results[i] : i \in Forward(L, p)}

ReverseQuiet(L, C, p) ==
    \A c \in 1..Len(C) :
        C[c].q \in ({p} \cup ALookups(L, p)) => C[c].state # "open"

C16_ReverseCallbackOnce ==
    [][\A p \in ReverseCallsIn(lookups') :
          /\ lookups'[p].cb.calls <= 1
          /\ lookups'[p].cb.calls >
                (IF p <= Len(lookups) THEN lookups[p].cb.calls ELSE 0)
             => /\ lookups'[p].calls >= 1
                /\ ReverseResult(lookups', p)
          /\ ReverseQuiet(lookups', conns', p) => lookups'[p].cb.calls = 1]_vars

\* C21: when a parsed response has no answer to deliver and an NS authority
\* naming another server than the one asked, the step opens one connection to
\* the first such server, with the hop counter one higher and without the
\* pool; a lookup that has followed a referral makes no more attempts on the
\* pool and changes no alive flag; and a referral connection that closes with
\* a status other than 0 ends in the callback called with the error of that
\* status naming its server, and opens nothing.  The response is read here as
\* the wire format has it.
WireReferrals(str, server) ==
    {k \in (WireWord(str, 6) + 1)..(WireWord(str, 6) + WireWord(str, 8)) :
        WireRecType(str, k) = TYPE_NS /\ WireRecTarget(str, k) # server}

WireFirstReferral(str, server) ==
    WireRecTarget(str, CHOOSE k \in WireReferrals(str, server) :
                           \A j \in WireReferrals(str, server) : k <= j)

Refers(c) ==
    /\ Processed(c)
    /\ WireChecksPass(Received(conns'[c]))
    /\ \A k \in 1..WireWord(Received(conns'[c]), 6) :
          WireRecType(Received(conns'[c]), k) = TYPE_CNAME
    /\ WireReferrals(Received(conns'[c]), conns[c].server) # {}

FollowsReferral(c, new) ==
    /\ new.q = conns[c].q
    /\ new.server = WireFirstReferral(Received(conns'[c]), conns[c].server)
    /\ new.hops = conns[c].hops + 1
    /\ ~new.pooled

Referred(q) == \E d \in ConnsOf(q) : ~conns[d].pooled

C21_ReferralBypassesPool ==
    [][\A c \in 1..Len(conns) :
          /\ Refers(c) => OpensOne /\ FollowsReferral(c, conns'[Len(conns')])
          /\ (Referred(conns[c].q) /\ conns'[c] # conns[c])
             => /\ objs' = objs
                /\ \A n \in (Len(conns) + 1)..Len(conns') : ~conns'[n].pooled
          /\ (ClosedFailed(c) /\ ~conns[c].pooled)
             => /\ lookups'[conns[c].q].calls = lookups[conns[c].q].calls + 1
                /\ lookups'[conns[c].q].last.null
                /\ lookups'[conns[c].q].last.error.kind \in
                       {"CONNECTION_REFUSED", "TIMED_OUT", "SERVER_ERROR"}
                /\ lookups'[conns[c].q].last.error.server = conns[c].server
                /\ OpensNone]_vars

\* C22: a step that parses a response with ANCOUNT > 0 calls the lookup's
\* callback once and opens no connection, also when every answer is a CNAME;
\* the results are the rdata of the answers that are not CNAMEs, and null when
\* there is none.
HasAnswers(c) ==
    /\ Processed(c)
    /\ WireChecksPass(Received(conns'[c]))
    /\ WireWord(Received(conns'[c]), 6) > 0

OnlyCNAMEs(str) == \A k \in 1..WireWord(str, 6) : WireRecType(str, k) = TYPE_CNAME

C22_AnswersAreDelivered ==
    [][\A c \in 1..Len(conns) :
          HasAnswers(c)
          => /\ lookups'[conns[c].q].calls = lookups[conns[c].q].calls + 1
             /\ lookups'[conns[c].q].last.error = NoError
             /\ lookups'[conns[c].q].last.null <=> OnlyCNAMEs(Received(conns'[c]))
             /\ OpensNone]_vars

\* C23: a lookup has at most one connection that still awaits its stream-close
\* event, and a step opens a connection for a lookup only when every earlier
\* connection of the lookup has had that event, in an earlier step or in this
\* one.
InFlight(C, q) == {c \in 1..Len(C) : C[c].q = q /\ C[c].state = "open"}

C23_OneConnectionInFlight ==
    [][/\ \A q \in 1..Len(lookups') : Cardinality(InFlight(conns', q)) <= 1
       /\ \A n \in (Len(conns) + 1)..Len(conns') :
             \A c \in 1..Len(conns) :
                 conns[c].q = conns'[n].q => conns'[c].state # "open"]_vars

\* C24: a TXT record whose RDATA is k fragments, each with its length before
\* it, that fill RDLENGTH exactly, is decoded to the fragments joined in
\* order when k <= 10 and to the first 10 of them joined when k > 10, and the
\* cursor after the record is at the end of its RDATA.  Checked on the first
\* answer of every response parsed, through DNS_readRec and through what the
\* callback receives.
RECURSIVE WireTxtFills(_, _, _)
WireTxtFills(str, idx, end) ==
    IF idx >= end THEN idx = end
    ELSE WireTxtFills(str, idx + 1 + str[idx + 1], end)

RECURSIVE WireTxtFragments(_, _, _)
WireTxtFragments(str, idx, end) ==
    IF idx >= end THEN <<>>
    ELSE <<SubSeq(str, idx + 2, idx + 1 + str[idx + 1])>>
         \o WireTxtFragments(str, idx + 1 + str[idx + 1], end)

RECURSIVE Joined(_, _)
Joined(fragments, n) ==
    IF n = 0 \/ fragments = <<>> THEN <<>>
    ELSE Head(fragments) \o Joined(Tail(fragments), n - 1)

\* The fragments of the TXT record that starts at start.
TxtOf(str, start) ==
    WireTxtFragments(str, WireNameEnd(str, start) + 10, WireRecEnd(str, start))

IsTxt(str, start) ==
    /\ WireWord(str, WireNameEnd(str, start)) = TYPE_TXT
    /\ WireTxtFills(str, WireNameEnd(str, start) + 10, WireRecEnd(str, start))

TxtDecoded(str, start, rddata) ==
    rddata = StringData(Joined(TxtOf(str, start),
                               IF Len(TxtOf(str, start)) <= 10
                               THEN Len(TxtOf(str, start)) ELSE 10))

TxtRead(str, start, q) ==
    /\ ~DNS_readRec(str, start).thrown
    /\ TxtDecoded(str, start, DNS_readRec(str, start).rec.rddata)
    /\ DNS_readRec(str, start).idx = WireRecEnd(str, start)
    /\ ~lookups'[q].last.null
    /\ TxtDecoded(str, start, lookups'[q].last.results[1])

C24_TxtFragments ==
    [][\A c \in 1..Len(conns) :
          (/\ Processed(c)
           /\ WireChecksPass(Received(conns'[c]))
           /\ WireWord(Received(conns'[c]), 6) > 0
           /\ IsTxt(Received(conns'[c]), WireRecStart(Received(conns'[c]), 1)))
          => TxtRead(Received(conns'[c]), WireRecStart(Received(conns'[c]), 1),
                     conns[c].q)]_vars

\* A lookup was answered with "hixyz", the three fragments "hi", "", "xyz"
\* joined, and a response of twelve fragments "a" .. "l" has just been parsed
\* and delivered as "abcdefghij".
C24_Witness ==
    /\ \E q \in 1..Len(lookups) :
          /\ lookups[q].calls = 1 /\ ~lookups[q].last.null
          /\ lookups[q].last.results[1] = StringData(<<104, 105, 120, 121, 122>>)
    /\ \E c \in 1..Len(conns) :
          /\ conns[c].state = "open" /\ conns[c].done
          /\ Received(conns[c]) =
                 SubSeq(RespTXTof(Fragments(12)), 3, Len(RespTXTof(Fragments(12))))
          /\ lookups[conns[c].q].calls = 1
          /\ lookups[conns[c].q].last.results[1] = StringData(Joined(Fragments(12), 10))

====
